---- MODULE Spec2Model ----
(***************************************************************************)
(* VitExtractor (extractors/base.py): forward hooks that capture per-stage *)
(* outputs of a vision transformer, the extraction cycle built on them,    *)
(* the geometry / projection-decomposition helpers and the cosine          *)
(* similarity functions.                                                   *)
(*                                                                         *)
(* Python lists are objects with identity: outputs_dict maps a capture     *)
(* kind to a reference into heap, so that a rebinding (d[k] = []) and an   *)
(* in-place change (d[k].append(x)) are different things.                  *)
(***************************************************************************)
EXTENDS Integers, Sequences, FiniteSets, TLC

VARIABLES mode, patch_size,
          hook_handlers, layers_dict, outputs_dict,
          heap, attached, nextId,
          lock, pc, frame, status, returned, ncalls,
          arg, ret

extractor == <<hook_handlers, layers_dict, outputs_dict, heap, attached>>
config    == <<mode, patch_size>>
control   == <<lock, pc, frame, status, returned, ncalls, nextId>>
pure      == <<arg, ret>>
vars      == <<mode, patch_size, hook_handlers, layers_dict, outputs_dict,
               heap, attached, nextId, lock, pc, frame, status, returned,
               ncalls, arg, ret>>

----------------------------------------------------------------------------
(* Bounds of the exploration.                                              *)

\* Number of stages (len(model.blocks)) of the loaded model.
Depth == 1
\* Number of public calls started on one extractor instance.
MaxCalls == 2
\* Image heights and widths, and patch sizes, of the geometry calls.
MaxSide == 20
MaxPatch == 6
\* Seeds of the generated tensor contents.
MaxSeed == 1
\* Token count and token width of the explicitly enumerated token sets.
MaxTokens == 2

----------------------------------------------------------------------------
(* Class attributes and constructor arguments.                             *)

BLOCK_KEY     == "block"
ATTN_KEY      == "attn"
PATCH_IMD_KEY == "patch_imd"
QKV_KEY       == "qkv"
KEY_LIST      == <<BLOCK_KEY, ATTN_KEY, PATCH_IMD_KEY, QKV_KEY>>
MODE          == {"small", "base", "tiny"}

Kinds == {KEY_LIST[i] : i \in 1..Len(KEY_LIST)}

\* The stage list _init_hooks_data writes for every kind: [0, 1, ..., 11].
LastDefaultLayer == 11
AllLayers == 0..LastDefaultLayer

PatchSizes == {16}
Threads == {1, 2}

\* Input images, by shape (batch, channels, height, width).
Images == {<<1, 3, 16, 16>>, <<1, 3, 16, 32>>}

Range(s) == {s[i] : i \in 1..Len(s)}
Values(f) == {f[x] : x \in DOMAIN f}

----------------------------------------------------------------------------
(* Geometry (pure).                                                        *)

get_patch_size(ps) == ps

\* variant of get_width_patch_num that divides the height
get_width_patch_num_of_height(ps, input_img_shape) ==
    LET h == input_img_shape[3]
    IN  h \div get_patch_size(ps)

get_width_patch_num(ps, input_img_shape) ==
    LET w == input_img_shape[4]
    IN  w \div get_patch_size(ps)

get_height_patch_num(ps, input_img_shape) ==
    LET h == input_img_shape[3]
    IN  h \div get_patch_size(ps)

get_patch_num(ps, input_img_shape) ==
    1 + (get_height_patch_num(ps, input_img_shape)
           * get_width_patch_num(ps, input_img_shape))

get_head_num(m) == IF m = "small" THEN 6 ELSE 12

get_embedding_dim(m) == IF m = "small" THEN 384 ELSE 768

----------------------------------------------------------------------------
(* The loaded model (models.vision_transformer), seen through its output   *)
(* shapes only.                                                            *)

\* num_heads of vit_small / vit_base / vit_tiny
ModelHeadNum(m) == CASE m = "small" -> 6 [] m = "base" -> 12 [] m = "tiny" -> 3

\* embed_dim of vit_small / vit_base / vit_tiny
ModelEmbedDim(m) == CASE m = "small" -> 384 [] m = "base" -> 768 [] m = "tiny" -> 192

\* number of tokens the model produces: class token + one per patch
ModelPatchNum(ps, shape) == 1 + (shape[3] \div ps) * (shape[4] \div ps)

\* shape of the output of block.attn.qkv
QkvShape(m, ps, shape) == <<1, ModelPatchNum(ps, shape), 3 * ModelEmbedDim(m)>>

RECURSIVE Numel(_)
Numel(shape) == IF shape = <<>> THEN 1 ELSE Head(shape) * Numel(Tail(shape))


----------------------------------------------------------------------------
(* Tensors.  A tensor is a shape over the elements of a base tensor: view  *)
(* lists, in the order they were applied, the reshape / permute / select   *)
(* steps that lead from the base (row-major) to it, and an element is      *)
(* found by walking the steps backwards.  A failed operation is the tensor *)
(* with ok = FALSE.                                                        *)

ShapeError == [ok |-> FALSE, shape |-> <<>>, base |-> [kind |-> "none"], view |-> <<>>]

\* a freshly produced (contiguous) tensor whose elements are base[0..numel-1]
BaseTensor(shape, base) == [ok |-> TRUE, shape |-> shape, base |-> base, view |-> <<>>]

\* multi-index (0-based, a sequence) -> row-major offset
RECURSIVE Offset(_, _)
Offset(shape, idx) ==
    IF shape = <<>> THEN 0
    ELSE Head(idx) * Numel(Tail(shape)) + Offset(Tail(shape), Tail(idx))

\* row-major offset -> multi-index
RECURSIVE Unravel(_, _)
Unravel(shape, off) ==
    IF shape = <<>> THEN <<>>
    ELSE <<off \div Numel(Tail(shape))>>
             \o Unravel(Tail(shape), off % Numel(Tail(shape)))

PermutedShape(shape, dims) == [i \in 1..Len(dims) |-> shape[dims[i] + 1]]

\* torch.Tensor.reshape: same elements in the same row-major order
reshape(x, shape) ==
    IF ~x.ok \/ Numel(shape) # Numel(x.shape) THEN ShapeError
    ELSE [x EXCEPT !.shape = shape,
                   !.view = Append(@, [op |-> "reshape", from |-> x.shape,
                                       dims |-> <<>>, i |-> 0])]

\* torch.Tensor.permute(dims): axis i of the result is axis dims[i] (0-based)
permute(x, dims) ==
    [x EXCEPT !.shape = PermutedShape(x.shape, dims),
              !.view = Append(@, [op |-> "permute", from |-> x.shape,
                                  dims |-> dims, i |-> 0])]

\* x[i]: selection along the first axis
select(x, i) ==
    [x EXCEPT !.shape = Tail(x.shape),
              !.view = Append(@, [op |-> "select", from |-> x.shape,
                                  dims |-> <<>>, i |-> i])]

\* x.transpose(0, 1) of a tensor with three axes
transpose01(x) == permute(x, <<1, 0, 2>>)

\* the row-major offset, before a view step, of the element at row-major
\* offset off after it
StepBack(step, off) ==
    IF step.op = "permute"
    THEN LET idx == Unravel(PermutedShape(step.from, step.dims), off)
             old == [a \in 1..Len(step.dims) |->
                        idx[CHOOSE j \in 1..Len(step.dims) : step.dims[j] + 1 = a]]
         IN  Offset(step.from, old)
    ELSE IF step.op = "select"
         THEN step.i * Numel(Tail(step.from)) + off
         ELSE off

RECURSIVE BaseOffset(_, _)
BaseOffset(view, off) ==
    IF view = <<>> THEN off
    ELSE BaseOffset(SubSeq(view, 1, Len(view) - 1), StepBack(view[Len(view)], off))

\* the base offset of element x[idx]
ElementAt(x, idx) == BaseOffset(x.view, Offset(x.shape, idx))

\* contents of a base tensor: listed, or generated from a seed
Data(seq) == [kind |-> "data", data |-> seq]
Generated(seed) == [kind |-> "gen", seed |-> seed]
BaseValue(base, off) ==
    IF base.kind = "data" THEN base.data[off + 1]
    ELSE ((off * (2 * base.seed + 3) + off \div 5 + base.seed) % 5) - 2

\* the value of element x[idx]
Elem(x, idx) == BaseValue(x.base, ElementAt(x, idx))

----------------------------------------------------------------------------
(* Projection decomposition.                                               *)

get_queries_from_qkv(m, ps, qkv, input_img_shape) ==
    LET patch_num == get_patch_num(ps, input_img_shape)
        head_num == get_head_num(m)
        embedding_dim == get_embedding_dim(m)
        r == reshape(qkv, <<patch_num, 3, head_num, embedding_dim \div head_num>>)
    IN  IF ~r.ok THEN ShapeError ELSE select(permute(r, <<1, 2, 0, 3>>), 0)

\* variant of get_keys_from_qkv that takes the combined tensor to be laid out
\* head-major (patch, head, triplet, channel)
get_keys_from_qkv_head_major(m, ps, qkv, input_img_shape) ==
    LET patch_num == get_patch_num(ps, input_img_shape)
        head_num == get_head_num(m)
        embedding_dim == get_embedding_dim(m)
        r == reshape(qkv, <<patch_num, head_num, 3, embedding_dim \div head_num>>)
    IN  IF ~r.ok THEN ShapeError ELSE select(permute(r, <<2, 1, 0, 3>>), 1)

get_keys_from_qkv(m, ps, qkv, input_img_shape) ==
    LET patch_num == get_patch_num(ps, input_img_shape)
        head_num == get_head_num(m)
        embedding_dim == get_embedding_dim(m)
        r == reshape(qkv, <<patch_num, 3, head_num, embedding_dim \div head_num>>)
    IN  IF ~r.ok THEN ShapeError ELSE select(permute(r, <<1, 2, 0, 3>>), 1)

get_values_from_qkv(m, ps, qkv, input_img_shape) ==
    LET patch_num == get_patch_num(ps, input_img_shape)
        head_num == get_head_num(m)
        embedding_dim == get_embedding_dim(m)
        r == reshape(qkv, <<patch_num, 3, head_num, embedding_dim \div head_num>>)
    IN  IF ~r.ok THEN ShapeError ELSE select(permute(r, <<1, 2, 0, 3>>), 2)

\* keys.transpose(0, 1).reshape(t, h * d)
Collapse(x) ==
    LET h == x.shape[1]
        t == x.shape[2]
        d == x.shape[3]
    IN  reshape(transpose01(x), <<t, h * d>>)

----------------------------------------------------------------------------
(* Public operations and the capture kind each one reads.                  *)

RawOps == {"get_feature_from_input", "get_qkv_feature_from_input",
           "get_attn_feature_from_input"}
TokenOps == {"get_tokens_from_input", "get_cls_token_from_input",
             "get_tokens_self_sim_from_input"}
QkvOps == {"get_keys_from_input", "get_values_from_input",
           "get_queries_from_input", "get_keys_self_sim_from_input",
           "get_values_self_sim_from_input",
           "get_queries_self_sim_from_input",
           "get_keys_cross_sim_from_input"}
SelfSimOps == {"get_keys_self_sim_from_input",
               "get_values_self_sim_from_input",
               "get_queries_self_sim_from_input",
               "get_tokens_self_sim_from_input"}
CrossOp == "get_keys_cross_sim_from_input"
AttnOp == "get_attentions_from_input"
Ops == RawOps \cup TokenOps \cup QkvOps \cup {AttnOp}

CaptureKey(op) ==
    IF op \in TokenOps \cup {"get_feature_from_input"} THEN BLOCK_KEY
    ELSE IF op \in QkvOps \cup {"get_qkv_feature_from_input"} THEN QKV_KEY
    ELSE ATTN_KEY

\* the image of the forward evaluation in progress
CurImg(fr) == IF fr.cycle = 2 THEN fr.img2 ELSE fr.img

IdleFrame == [op |-> "none", img |-> <<>>, img2 |-> <<>>, cycle |-> 0,
              pos |-> 0, point |-> 1, fwd |-> 0, feature |-> 0, log |-> <<>>,
              layer |-> 0, src |-> <<>>, outcome |-> "none", value |-> <<>>]

----------------------------------------------------------------------------
(* Object heap: list objects by reference, unreferenced ones collected.    *)

FrameRefs(fr) == {fr[t].feature : t \in Threads} \ {0}
ReturnedRefs(rs) == {rs[i].ref : i \in 1..Len(rs)}
Collect(h, live) == [r \in (DOMAIN h) \cap live |-> h[r]]

----------------------------------------------------------------------------
(* Hooks.                                                                  *)

Handle(id, b, k) == [id |-> id, block |-> b, kind |-> k]
Tensor(f, b, k, img) == [fwd |-> f, stage |-> b, kind |-> k, img |-> img]

\* the order of the four registrations of one block in _register_hooks
RegisterOrder == <<BLOCK_KEY, ATTN_KEY, QKV_KEY, PATCH_IMD_KEY>>

\* the handles _register_hooks creates from point j of block b onwards
RECURSIVE NewHandles(_, _, _, _)
NewHandles(layers, b, j, id) ==
    IF b >= Depth THEN <<>>
    ELSE IF j > Len(RegisterOrder) THEN NewHandles(layers, b + 1, 1, id)
    ELSE IF b \in layers[RegisterOrder[j]]
         THEN <<Handle(id, b, RegisterOrder[j])>>
                  \o NewHandles(layers, b, j + 1, id + 1)
         ELSE NewHandles(layers, b, j + 1, id)

RECURSIVE Repeat(_, _)
Repeat(x, n) == IF n = 0 THEN <<>> ELSE <<x>> \o Repeat(x, n - 1)

\* number of callbacks attached to point k of block b
HookCount(att, b, k) == Cardinality({x \in att : x.block = b /\ x.kind = k})

\* the order in which the four instrumented modules of one block finish
\* their forward: attn.qkv, attn.attn_drop, attn, then the block itself
FireOrder == <<QKV_KEY, ATTN_KEY, PATCH_IMD_KEY, BLOCK_KEY>>

\* _get_block_output / _get_attn_output / _get_qkv_output: every callback
\* attached to point k of block b appends the point's output to the list
\* outputs_dict[k] names when it fires
FireHooks(h, od, att, b, k, f, img) ==
    [r \in DOMAIN h |->
        IF r = od[k]
        THEN h[r] \o Repeat(Tensor(f, b, k, img), HookCount(att, b, k))
        ELSE h[r]]

----------------------------------------------------------------------------
(* The extraction cycle, one step per statement of                         *)
(* get_feature_from_input / get_qkv_feature_from_input /                   *)
(* get_attn_feature_from_input.                                            *)

Log(t, e) == [frame EXCEPT ![t].log = Append(@, e)]

\* the public method op is entered (under the caller's lock) with its image
\* argument, and its second image argument where it has one
Enter(t, op, img, img2) ==
    /\ pc[t] = "idle"
    /\ lock = 0
    /\ ncalls < MaxCalls
    /\ lock' = t
    /\ ncalls' = ncalls + 1
    /\ frame' = [frame EXCEPT ![t] = [IdleFrame EXCEPT !.op = op, !.img = img,
                                         !.img2 = img2, !.cycle = 1]]
    /\ pc' = [pc EXCEPT ![t] = "register"]
    /\ status' = [status EXCEPT ![t] = "running"]
    /\ UNCHANGED <<extractor, config, returned, nextId>>

\* any public method is entered with any images
Call(t) ==
    /\ pc[t] = "idle"
    /\ \E op \in Ops, img \in Images :
          \E img2 \in (IF op = CrossOp THEN Images ELSE {img}) :
             Enter(t, op, img, img2)
    /\ UNCHANGED pure

_register_hooks(t) ==
    /\ pc[t] = "register"
    /\ LET new == NewHandles(layers_dict, 0, 1, nextId)
       IN  /\ hook_handlers' = hook_handlers \o new
           /\ attached' = attached \cup Range(new)
           /\ nextId' = nextId + Len(new) + 1
           /\ frame' = [frame EXCEPT ![t].log = Append(@, "register"),
                                     ![t].pos = 0,
                                     ![t].point = 1,
                                     ![t].fwd = nextId + Len(new)]
    /\ pc' = [pc EXCEPT ![t] = "forward"]
    /\ UNCHANGED <<layers_dict, outputs_dict, heap, config, lock, status,
                   returned, ncalls, pure>>

\* self.model(input_img): the next instrumented module of block frame[t].pos
\* finishes its forward and the callbacks attached to it fire
model_forward_hook(t) ==
    /\ pc[t] = "forward"
    /\ frame[t].pos < Depth
    /\ heap' = FireHooks(heap, outputs_dict, attached, frame[t].pos,
                       FireOrder[frame[t].point], frame[t].fwd, CurImg(frame[t]))
    /\ frame' = IF frame[t].point < Len(FireOrder)
                THEN [frame EXCEPT ![t].point = @ + 1]
                ELSE [frame EXCEPT ![t].pos = @ + 1, ![t].point = 1]
    /\ UNCHANGED <<hook_handlers, layers_dict, outputs_dict, attached, nextId,
                   config, lock, pc, status, returned, ncalls, pure>>

\* self.model(input_img) returns
model_return(t) ==
    /\ pc[t] = "forward"
    /\ frame[t].pos = Depth
    /\ frame' = Log(t, "forward")
    /\ pc' = [pc EXCEPT ![t] = "read"]
    /\ UNCHANGED <<extractor, nextId, config, lock, status, returned, ncalls, pure>>

\* self.model(input_img) raises: the exception leaves the public method
model_raise(t) ==
    /\ pc[t] = "forward"
    /\ frame' = [frame EXCEPT ![t] = IdleFrame]
    /\ pc' = [pc EXCEPT ![t] = "idle"]
    /\ status' = [status EXCEPT ![t] = "ForwardError"]
    /\ lock' = 0
    /\ heap' = Collect(heap, Values(outputs_dict) \cup FrameRefs(frame')
                                \cup ReturnedRefs(returned))
    /\ UNCHANGED <<hook_handlers, layers_dict, outputs_dict, attached, nextId,
                   config, returned, ncalls, pure>>

\* feature = self.outputs_dict[KEY]
read_buffer(t) ==
    /\ pc[t] = "read"
    /\ frame' = [frame EXCEPT ![t].feature = outputs_dict[CaptureKey(frame[t].op)],
                              ![t].log = Append(@, "read")]
    /\ pc' = [pc EXCEPT ![t] = "clear"]
    /\ UNCHANGED <<extractor, nextId, config, lock, status, returned, ncalls, pure>>

_clear_hooks(t) ==
    /\ pc[t] = "clear"
    /\ attached' = attached \ Range(hook_handlers)
    /\ hook_handlers' = <<>>
    /\ frame' = Log(t, "clear")
    /\ pc' = [pc EXCEPT ![t] = "reset"]
    /\ UNCHANGED <<layers_dict, outputs_dict, heap, nextId, config, lock, status,
                   returned, ncalls, pure>>

FreshLists(id) == [k \in Kinds |-> id + (CHOOSE i \in 1..Len(KEY_LIST) : KEY_LIST[i] = k) - 1]

\* variant of _init_hooks_data that restores the stage lists and leaves the
\* buffers as they are
_init_hooks_data_layers_only(t) ==
    /\ pc[t] = "reset"
    /\ layers_dict' = [k \in Kinds |-> AllLayers]
    /\ frame' = Log(t, "reset")
    /\ pc' = [pc EXCEPT ![t] = "post"]
    /\ UNCHANGED <<hook_handlers, outputs_dict, heap, attached, nextId, config,
                   lock, status, returned, ncalls, pure>>

_init_hooks_data(t) ==
    /\ pc[t] = "reset"
    /\ layers_dict' = [k \in Kinds |-> AllLayers]
    /\ outputs_dict' = FreshLists(nextId)
    /\ nextId' = nextId + Len(KEY_LIST)
    /\ frame' = Log(t, "reset")
    /\ heap' = Collect([r \in DOMAIN heap \cup Values(outputs_dict') |->
                           IF r \in Values(outputs_dict') THEN <<>> ELSE heap[r]],
                       Values(outputs_dict') \cup FrameRefs(frame')
                           \cup ReturnedRefs(returned))
    /\ pc' = [pc EXCEPT ![t] = "post"]
    /\ UNCHANGED <<hook_handlers, attached, config, lock, status, returned,
                   ncalls, pure>>

----------------------------------------------------------------------------
(* What the public methods do with the captured list.                      *)

\* shape of the output a callback of kind k captures
CapturedShape(k, m, ps, img) ==
    IF k = QKV_KEY THEN QkvShape(m, ps, img)
    ELSE IF k = ATTN_KEY
         THEN <<1, ModelHeadNum(m), ModelPatchNum(ps, img), ModelPatchNum(ps, img)>>
         ELSE <<1, ModelPatchNum(ps, img), ModelEmbedDim(m)>>

\* the tensor a callback captured: the base is the capture itself
CapturedTensor(tag, m, ps) ==
    BaseTensor(CapturedShape(tag.kind, m, ps, tag.img),
               [kind |-> "capture", fwd |-> tag.fwd, stage |-> tag.stage])

Decompose(op, m, ps, qkv, input_img_shape) ==
    IF op \in {"get_values_from_input", "get_values_self_sim_from_input"}
    THEN get_values_from_qkv(m, ps, qkv, input_img_shape)
    ELSE IF op \in {"get_queries_from_input", "get_queries_self_sim_from_input"}
         THEN get_queries_from_qkv(m, ps, qkv, input_img_shape)
         ELSE get_keys_from_qkv(m, ps, qkv, input_img_shape)

\* variant of the shape assertion that compares head count and head width only
ShapesAgree_heads_only(src_shape, tgt_shape) ==
    src_shape[1] = tgt_shape[1] /\ src_shape[3] = tgt_shape[3]

\* assert src_keys.shape == tgt_keys.shape
ShapesAgree(src_shape, tgt_shape) == src_shape = tgt_shape

Finish(t, outcome, events, value) ==
    /\ frame' = [frame EXCEPT ![t].outcome = outcome,
                              ![t].log = @ \o events,
                              ![t].value = value,
                              ![t].feature = 0]
    /\ pc' = [pc EXCEPT ![t] = "done"]

\* get_feature_from_input / get_qkv_feature_from_input /
\* get_attn_feature_from_input: return feature
return_feature(t) ==
    /\ pc[t] = "post"
    /\ frame[t].op \in RawOps
    /\ returned' = Append(returned, [ref |-> frame[t].feature,
                                     fwd |-> frame[t].fwd,
                                     kind |-> CaptureKey(frame[t].op)])
    /\ Finish(t, "returned", <<>>, <<frame[t].feature>>)
    /\ UNCHANGED <<extractor, nextId, config, lock, status, ncalls, pure>>

\* get_tokens_from_input, get_cls_token_from_input, get_attentions_from_input:
\* index the list by layer_num and return (a slice of, the mean of) the element
get_element(t, layer_num) ==
    /\ pc[t] = "post"
    /\ frame[t].op \in {"get_tokens_from_input", "get_cls_token_from_input", AttnOp}
    /\ Finish(t, "returned", <<>>, <<heap[frame[t].feature][layer_num + 1]>>)
    /\ heap' = Collect(heap, Values(outputs_dict) \cup FrameRefs(frame')
                                \cup ReturnedRefs(returned))
    /\ UNCHANGED <<hook_handlers, layers_dict, outputs_dict, attached, nextId,
                   config, lock, status, returned, ncalls>>

\* get_keys_from_input, get_values_from_input, get_queries_from_input and the
\* self-similarity methods over them and over the tokens
get_projection(t, layer_num) ==
    /\ pc[t] = "post"
    /\ frame[t].op \in (QkvOps \cup SelfSimOps) \ {CrossOp}
    /\ LET tag == heap[frame[t].feature][layer_num + 1]
           x == CapturedTensor(tag, mode, patch_size)
           y == IF frame[t].op \in QkvOps
                THEN Decompose(frame[t].op, mode, patch_size, x, frame[t].img)
                ELSE x
           concatenated == Collapse(y)
       IN  IF ~y.ok
           THEN Finish(t, "ShapeError", <<"decompose">>, <<>>)
           ELSE IF frame[t].op \in SelfSimOps
                THEN Finish(t, "returned",
                            (IF frame[t].op \in QkvOps THEN <<"decompose">> ELSE <<>>)
                                \o <<"collapse", "sim">>,
                            <<tag, <<1, concatenated.shape[1],
                                     concatenated.shape[1]>> >>)
                ELSE Finish(t, "returned", <<"decompose">>, <<tag, y.shape>>)
    /\ heap' = Collect(heap, Values(outputs_dict) \cup FrameRefs(frame')
                                \cup ReturnedRefs(returned))
    /\ UNCHANGED <<hook_handlers, layers_dict, outputs_dict, attached, nextId,
                   config, lock, status, returned, ncalls>>

\* variant of get_keys_cross_sim_from_input that takes the source keys for the
\* target keys as well, without a second extraction
cross_sim_source_reused(t, layer_num) ==
    /\ pc[t] = "post"
    /\ frame[t].op = CrossOp
    /\ frame[t].cycle = 1
    /\ LET tag == heap[frame[t].feature][layer_num + 1]
           x == CapturedTensor(tag, mode, patch_size)
           src_keys == get_keys_from_qkv(mode, patch_size, x, frame[t].img)
       IN  IF ~src_keys.ok
           THEN Finish(t, "ShapeError", <<"decompose">>, <<>>)
           ELSE Finish(t, "returned", <<"decompose", "collapse", "collapse", "sim">>,
                       <<tag, <<1, src_keys.shape[2], src_keys.shape[2]>> >>)
    /\ heap' = Collect(heap, Values(outputs_dict) \cup FrameRefs(frame')
                                \cup ReturnedRefs(returned))
    /\ UNCHANGED <<hook_handlers, layers_dict, outputs_dict, attached, nextId,
                   config, lock, status, returned, ncalls>>

\* get_keys_cross_sim_from_input: src_keys = self.get_keys_from_input(source_img)
cross_sim_source(t, layer_num) ==
    /\ pc[t] = "post"
    /\ frame[t].op = CrossOp
    /\ frame[t].cycle = 1
    /\ LET tag == heap[frame[t].feature][layer_num + 1]
           x == CapturedTensor(tag, mode, patch_size)
           src_keys == get_keys_from_qkv(mode, patch_size, x, frame[t].img)
       IN  IF ~src_keys.ok
           THEN Finish(t, "ShapeError", <<"decompose">>, <<>>)
           ELSE /\ frame' = [frame EXCEPT ![t].src = src_keys.shape,
                                          ![t].layer = layer_num,
                                          ![t].cycle = 2,
                                          ![t].feature = 0,
                                          ![t].log = Append(@, "decompose")]
                /\ pc' = [pc EXCEPT ![t] = "register"]
    /\ heap' = Collect(heap, Values(outputs_dict) \cup FrameRefs(frame')
                                \cup ReturnedRefs(returned))
    /\ UNCHANGED <<hook_handlers, layers_dict, outputs_dict, attached, nextId,
                   config, lock, status, returned, ncalls>>

\* get_keys_cross_sim_from_input from tgt_keys = ... to the return
cross_sim_target(t) ==
    /\ pc[t] = "post"
    /\ frame[t].op = CrossOp
    /\ frame[t].cycle = 2
    /\ LET tag == heap[frame[t].feature][frame[t].layer + 1]
           x == CapturedTensor(tag, mode, patch_size)
           tgt_keys == get_keys_from_qkv(mode, patch_size, x, frame[t].img2)
           h == frame[t].src[1]
           tt == frame[t].src[2]
           d == frame[t].src[3]
           concatenated_tgt_keys == reshape(transpose01(tgt_keys), <<tt, h * d>>)
       IN  IF ~tgt_keys.ok
           THEN Finish(t, "ShapeError", <<"decompose">>, <<>>)
           ELSE IF ~ShapesAgree(frame[t].src, tgt_keys.shape)
                THEN Finish(t, "AssertionError", <<"decompose">>, <<>>)
                ELSE IF ~concatenated_tgt_keys.ok
                     THEN Finish(t, "ShapeError", <<"decompose", "collapse">>, <<>>)
                     ELSE Finish(t, "returned",
                                 <<"decompose", "collapse", "collapse", "sim">>,
                                 <<tag, <<1, tt, tt>> >>)
    /\ heap' = Collect(heap, Values(outputs_dict) \cup FrameRefs(frame')
                                \cup ReturnedRefs(returned))
    /\ UNCHANGED <<hook_handlers, layers_dict, outputs_dict, attached, nextId,
                   config, lock, status, returned, ncalls>>

\* the public method returns, or its exception propagates, to the caller
Return(t) ==
    /\ pc[t] = "done"
    /\ status' = [status EXCEPT ![t] = frame[t].outcome]
    /\ frame' = [frame EXCEPT ![t] = IdleFrame]
    /\ pc' = [pc EXCEPT ![t] = "idle"]
    /\ lock' = 0
    /\ UNCHANGED <<extractor, nextId, config, returned, ncalls, pure>>

----------------------------------------------------------------------------
(* The extractor driven by one caller, and by two callers holding a lock.  *)

LayerNums == 0..(Depth - 1)

NoCall == [fn |-> "none"]

\* VitExtractor.__init__ (after the model is built)
Constructed ==
    /\ hook_handlers = <<>>
    /\ layers_dict = [k \in Kinds |-> AllLayers]
    /\ outputs_dict = FreshLists(1)
    /\ heap = [r \in Values(FreshLists(1)) |-> <<>>]
    /\ nextId = 1 + Len(KEY_LIST)
    /\ attached = {}
    /\ lock = 0
    /\ pc = [t \in Threads |-> "idle"]
    /\ frame = [t \in Threads |-> IdleFrame]
    /\ status = [t \in Threads |-> "none"]
    /\ returned = <<>>
    /\ ncalls = 0

Init ==
    /\ mode \in MODE
    /\ patch_size \in PatchSizes
    /\ Constructed
    /\ arg = NoCall
    /\ ret = NoCall

Step(t) ==
    \/ Call(t)
    \/ _register_hooks(t)
    \/ model_forward_hook(t)
    \/ model_return(t)
    \/ model_raise(t)
    \/ read_buffer(t)
    \/ _clear_hooks(t)
    \/ _init_hooks_data(t)
    \/ return_feature(t)
    \/ \E layer_num \in LayerNums : get_element(t, layer_num) /\ UNCHANGED pure
    \/ \E layer_num \in LayerNums : get_projection(t, layer_num) /\ UNCHANGED pure
    \/ \E layer_num \in LayerNums : cross_sim_source(t, layer_num) /\ UNCHANGED pure
    \/ cross_sim_target(t) /\ UNCHANGED pure
    \/ Return(t)

Next == Step(1)

Spec == Init /\ [][Next]_vars

NextLock == \E t \in Threads : Step(t)

SpecLock == Init /\ [][NextLock]_vars

----------------------------------------------------------------------------
(* Properties of the extraction cycle.                                     *)

ResetState ==
    /\ \A k \in Kinds : heap[outputs_dict[k]] = <<>> /\ layers_dict[k] = AllLayers
    /\ hook_handlers = <<>>
    /\ attached = {}

Completed(t) ==
    \/ pc[t] = "done" /\ frame[t].outcome \in {"returned", "AssertionError"}
    \/ pc[t] = "idle" /\ status[t] \in {"returned", "AssertionError"}

\* C1: after a public operation has returned, or has failed with the shape
\* assertion of get_keys_cross_sim_from_input, every buffer is empty, every
\* selection is all stages and no callback is attached or held, whatever
\* came before it on the instance.
C1_ResetAfterOperation == \A t \in Threads : Completed(t) => ResetState

C1_Witness ==
    /\ pc[1] = "done"
    /\ frame[1].outcome = "AssertionError"
    /\ ncalls = MaxCalls

CycleEvents == <<"register", "forward", "read", "clear", "reset">>
IsCycleEvent(e) == e \in Range(CycleEvents)
CycleLog(t) == SelectSeq(frame[t].log, IsCycleEvent)
IsPrefix(s, r) == Len(s) <= Len(r) /\ s = SubSeq(r, 1, Len(s))
ExpectedCycles(op) == IF op = CrossOp THEN 2 ELSE 1

\* C2: the cycle events of an operation always form a beginning of
\* register, forward, read, clear, reset (twice over for cross-similarity),
\* and an operation that returns or fails with the shape assertion has run
\* exactly that sequence: once, or twice for cross-similarity.
C2_CycleOrder ==
    \A t \in Threads :
        /\ IsPrefix(CycleLog(t), CycleEvents \o CycleEvents)
        /\ (pc[t] = "done" /\ frame[t].outcome \in {"returned", "AssertionError"})
              => CycleLog(t) = (IF ExpectedCycles(frame[t].op) = 2
                                THEN CycleEvents \o CycleEvents
                                ELSE CycleEvents)

C2_Witness ==
    /\ pc[1] = "done"
    /\ frame[1].op = CrossOp
    /\ frame[1].outcome = "returned"
    /\ CycleLog(1) = CycleEvents \o CycleEvents

SelectedStages(k) == layers_dict[k] \cap (0..(Depth - 1))

\* the list just read holds one tensor per stage, in stage order, all of
\* the forward evaluation of this call
OwnCaptures(t) ==
    LET lst == heap[frame[t].feature]
        k == CaptureKey(frame[t].op)
    IN  /\ Len(lst) = Cardinality(SelectedStages(k))
        /\ \A i \in 1..Len(lst) :
              lst[i].fwd = frame[t].fwd /\ lst[i].stage = i - 1 /\ lst[i].kind = k

\* C3: every operation that reaches its buffer read sees exactly one
\* tensor per selected stage, each captured by its own forward evaluation,
\* also after an earlier operation's forward evaluation raised.
C3_NoStaleCapture == \A t \in Threads : pc[t] = "clear" => OwnCaptures(t)

PatchCountsDiffer(t) ==
    ModelPatchNum(patch_size, frame[t].img) # ModelPatchNum(patch_size, frame[t].img2)

MismatchedCrossDone(t) ==
    /\ pc[t] = "done"
    /\ frame[t].op = CrossOp
    /\ PatchCountsDiffer(t)

Count(s, e) == Cardinality({i \in 1..Len(s) : s[i] = e})

\* C4 as stated: cross-similarity over different patch counts fails with the
\* shape-mismatch error having performed no tensor computation at all.
C4_NoComputationAtAll ==
    \A t \in Threads :
        MismatchedCrossDone(t) =>
            /\ frame[t].outcome \in {"AssertionError", "ShapeError"}
            /\ \A e \in {"forward", "decompose", "collapse", "sim"} :
                  Count(frame[t].log, e) = 0

\* C4 amended: cross-similarity over different patch counts never returns
\* and never starts the similarity computation (no collapse, no norms or
\* products); it fails with the shape assertion after both forward
\* evaluations and both key decompositions have run, or earlier with the
\* shape error of a key decomposition whose reshape is rejected.
C4_FailsBeforeSimilarity ==
    \A t \in Threads :
        MismatchedCrossDone(t) =>
            /\ frame[t].outcome \in {"AssertionError", "ShapeError"}
            /\ frame[t].value = <<>>
            /\ Count(frame[t].log, "collapse") = 0
            /\ Count(frame[t].log, "sim") = 0
            /\ frame[t].outcome = "AssertionError" <=>
                  (/\ Count(frame[t].log, "forward") = 2
                   /\ Count(frame[t].log, "decompose") = 2)

C4_Witness ==
    /\ MismatchedCrossDone(1)
    /\ frame[1].outcome = "AssertionError"
    /\ Count(frame[1].log, "forward") = 2

\* C10: a sequence returned by get_feature_from_input,
\* get_qkv_feature_from_input or get_attn_feature_from_input holds, at the
\* return and ever after, exactly one tensor per stage, entry i being the
\* capture of stage i by that call.
C10_ReturnedSequenceStable ==
    \A i \in 1..Len(returned) :
        LET lst == heap[returned[i].ref]
        IN  /\ Len(lst) = Depth
            /\ \A j \in 1..Len(lst) :
                  lst[j].fwd = returned[i].fwd /\ lst[j].stage = j - 1
                      /\ lst[j].kind = returned[i].kind

\* C9: with every public call made under the lock, a call's buffer read
\* yields one tensor per stage, all its own, and the instance is in the
\* reset state whenever the lock is free.
C9_LockedCallsIsolated ==
    /\ \A t \in Threads : pc[t] = "clear" => OwnCaptures(t)
    /\ lock = 0 => ResetState

----------------------------------------------------------------------------
(* Geometry calls: the arguments are drawn at the start, the call is made  *)
(* once.                                                                   *)

GeomSides == (1..MaxSide) \cup {224}
GeomPatchSizes == (1..MaxPatch) \cup {16}
GeomShapes == {<<1, 3, h, w>> : h \in GeomSides, w \in GeomSides}
GeomFns == {"get_width_patch_num", "get_height_patch_num", "get_patch_num"}

call_get_width_patch_num ==
    /\ arg.fn = "get_width_patch_num"
    /\ ret = NoCall
    /\ ret' = [fn |-> arg.fn, val |-> get_width_patch_num(patch_size, arg.shape)]
    /\ UNCHANGED <<extractor, config, control, arg>>

call_get_height_patch_num ==
    /\ arg.fn = "get_height_patch_num"
    /\ ret = NoCall
    /\ ret' = [fn |-> arg.fn, val |-> get_height_patch_num(patch_size, arg.shape)]
    /\ UNCHANGED <<extractor, config, control, arg>>

call_get_patch_num ==
    /\ arg.fn = "get_patch_num"
    /\ ret = NoCall
    /\ ret' = [fn |-> arg.fn, val |-> get_patch_num(patch_size, arg.shape)]
    /\ UNCHANGED <<extractor, config, control, arg>>

InitGeom ==
    /\ mode \in MODE
    /\ patch_size \in GeomPatchSizes
    /\ Constructed
    /\ arg \in [fn : GeomFns, shape : GeomShapes]
    /\ ret = NoCall

NextGeom ==
    \/ call_get_width_patch_num
    \/ call_get_height_patch_num
    \/ call_get_patch_num

SpecGeom == InitGeom /\ [][NextGeom]_vars

\* C7: get_height_patch_num = height // patch_size, get_width_patch_num =
\* width // patch_size, get_patch_num = 1 + their product, and a call leaves
\* the extractor as constructed.
C7_Geometry ==
    /\ ret.fn = "get_height_patch_num" =>
          /\ ret.val = arg.shape[3] \div patch_size
          /\ ret.val * patch_size <= arg.shape[3]
          /\ arg.shape[3] < (ret.val + 1) * patch_size
    /\ ret.fn = "get_width_patch_num" =>
          /\ ret.val = arg.shape[4] \div patch_size
          /\ ret.val * patch_size <= arg.shape[4]
          /\ arg.shape[4] < (ret.val + 1) * patch_size
    /\ ret.fn = "get_patch_num" =>
          ret.val = 1 + (arg.shape[3] \div patch_size) * (arg.shape[4] \div patch_size)
    /\ ResetState
    /\ outputs_dict = FreshLists(1)
    /\ \A t \in Threads : pc[t] = "idle" /\ frame[t] = IdleFrame

C7_Witness ==
    /\ ret.fn = "get_patch_num"
    /\ arg.shape = <<1, 3, 224, 224>>
    /\ patch_size = 16
    /\ ret.val = 197

----------------------------------------------------------------------------
(* Projection decomposition of a combined tensor.                          *)

\* a combined tensor of shape (patch_count, 3 x embedding_width), or with the
\* batch axis the callback's output has
CombinedShape(m, ps, img, batched) ==
    (IF batched THEN <<1>> ELSE <<>>)
        \o <<get_patch_num(ps, img), 3 * get_embedding_dim(m)>>

Projection(which, m, ps, qkv, img) ==
    IF which = 0 THEN get_queries_from_qkv(m, ps, qkv, img)
    ELSE IF which = 1 THEN get_keys_from_qkv(m, ps, qkv, img)
    ELSE get_values_from_qkv(m, ps, qkv, img)

\* one of the three decompositions is taken and one of its elements looked up
call_decompose ==
    /\ arg.fn = "decompose"
    /\ ret = NoCall
    /\ LET qkv == BaseTensor(CombinedShape(mode, patch_size, arg.img, arg.batched),
                             Generated(0))
           out == Projection(arg.which, mode, patch_size, qkv, arg.img)
       IN  /\ out.ok
           /\ \A a \in 1..3 : arg.idx[a] < out.shape[a]
           /\ ret' = [fn |-> "decompose", combined |-> qkv.shape,
                      shape |-> out.shape, off |-> ElementAt(out, arg.idx)]
    /\ UNCHANGED <<extractor, config, control, arg>>

ProbeIndices == {<<h, n, d>> : h \in {0, 1, 5, 11}, n \in 0..2, d \in {0, 1, 31, 63}}

InitQkv ==
    /\ mode \in MODE
    /\ patch_size \in PatchSizes
    /\ Constructed
    /\ arg \in [fn : {"decompose"}, img : Images, batched : BOOLEAN,
                which : 0..2, idx : ProbeIndices]
    /\ ret = NoCall

NextQkv == call_decompose

SpecQkv == InitQkv /\ [][NextQkv]_vars

\* C5: element [h, n, d] of the t-th decomposition (0 query, 1 key, 2 value)
\* of a combined tensor of shape (patch_count, 3 x embedding_width) is its
\* element [n, t x embedding_width + h x head_dim + d], the decomposition has
\* shape (head_count, patch_count, head_dim), and so stacking the three and
\* undoing the reorder and the reshape gives the combined tensor back.
C5_RoundTrip ==
    ret.fn = "decompose" =>
        LET head_count == ret.shape[1]
            patch_count == ret.shape[2]
            head_dim == ret.shape[3]
            embedding_width == head_count * head_dim
            combined == <<patch_count, 3 * embedding_width>>
        IN  /\ Len(ret.shape) = 3
            /\ Numel(ret.combined) = Numel(combined)
            /\ patch_count = get_patch_num(patch_size, arg.img)
            /\ ret.off = Offset(combined,
                                <<arg.idx[2],
                                  arg.which * embedding_width
                                      + arg.idx[1] * head_dim + arg.idx[3]>>)

C5_Witness ==
    /\ ret.fn = "decompose"
    /\ mode = "small"
    /\ arg.which = 1
    /\ arg.idx = <<5, 1, 63>>
    /\ ret.off = 1 * 1152 + 384 + 5 * 64 + 63

----------------------------------------------------------------------------
(* Cosine similarity.  Token values are integers and the arithmetic is     *)
(* exact: a norm is kept as the sum of squares under its root, a product   *)
(* of two norms as the two sums, a quotient as numerator and denominator.  *)

\* sum of f[lo..hi]
RECURSIVE SumRange(_, _, _)
SumRange(f, lo, hi) ==
    IF lo > hi THEN 0
    ELSE IF lo = hi THEN f[lo]
    ELSE LET mid == (lo + hi) \div 2
         IN  SumRange(f, lo, mid) + SumRange(f, mid + 1, hi)

\* (x @ y.permute(0, 2, 1))[b, i, j] for x, y of shape (B, T, D)
MatMulT(x, y, b, i, j) ==
    LET prod == [k \in 0..(x.shape[3] - 1) |->
                    Elem(x, <<b, i, k>>) * Elem(y, <<b, j, k>>)]
    IN  SumRange(prod, 0, x.shape[3] - 1)

\* x.norm(dim=2, keepdim=True)[b, i, 0]: the root of sq
Norm(x, b, i) == [sq |-> MatMulT(x, x, b, i, i)]

\* (norm_x @ norm_y.permute(0, 2, 1))[b, i, j]: root(a) * root(b)
NormProduct(nx, ny) == [a |-> nx.sq, b |-> ny.sq]

\* torch.clamp(factor, min=eps), eps = 1e-08: a product of norms of integer
\* tokens is 0, which is raised to eps, or at least 1
clamp_min_eps(p) ==
    IF p.a = 0 \/ p.b = 0 THEN [kind |-> "eps", a |-> 0, b |-> 0]
    ELSE [kind |-> "product", a |-> p.a, b |-> p.b]

unclamped(p) == [kind |-> "product", a |-> p.a, b |-> p.b]

Quotient(num, den) == [num |-> num, den |-> den]

\* attn_cosine_sim(x)[b, i, j]
attn_cosine_sim(x, b, i, j) ==
    LET x0 == select(x, 0)
        norm1(r) == Norm(x0, b, r)
        factor == clamp_min_eps(NormProduct(norm1(i), norm1(j)))
    IN  Quotient(MatMulT(x0, x0, b, i, j), factor)

\* variant of cross_cos_sim that divides by the product of norms as it is
cross_cos_sim_no_clamp(x, y, b, i, j) ==
    LET x0 == select(x, 0)
        y0 == select(y, 0)
        factor == unclamped(NormProduct(Norm(x0, b, i), Norm(y0, b, j)))
    IN  Quotient(MatMulT(x0, y0, b, i, j), factor)

\* cross_cos_sim(x, y)[b, i, j]
cross_cos_sim(x, y, b, i, j) ==
    LET x0 == select(x, 0)
        y0 == select(y, 0)
        norm_x == Norm(x0, b, i)
        norm_y == Norm(y0, b, j)
        factor == clamp_min_eps(NormProduct(norm_x, norm_y))
    IN  Quotient(MatMulT(x0, y0, b, i, j), factor)

\* x[None, None, ...]
unsqueeze2(x) == reshape(x, <<1, 1>> \o x.shape)

Raised(e) == [ok |-> FALSE, error |-> e, shape |-> <<>>, entry |-> Quotient(0, unclamped([a |-> 0, b |-> 0]))]
SimResult(shape, entry) == [ok |-> TRUE, error |-> "none", shape |-> shape, entry |-> entry]

\* get_keys_self_sim_from_input, from the captured qkv tensor on; entry [0, i, j]
get_keys_self_sim_from_input(m, ps, qkv, input_img_shape, i, j) ==
    LET keys == get_keys_from_qkv(m, ps, qkv, input_img_shape)
        concatenated_keys == Collapse(keys)
    IN  IF ~keys.ok THEN Raised("ShapeError")
        ELSE SimResult(<<1, keys.shape[2], keys.shape[2]>>,
                       attn_cosine_sim(unsqueeze2(concatenated_keys), 0, i, j))

\* get_keys_cross_sim_from_input, from the two captured qkv tensors on;
\* entry [0, i, j]
get_keys_cross_sim_from_input(m, ps, src_qkv, tgt_qkv, source_shape, target_shape, i, j) ==
    LET src_keys == get_keys_from_qkv(m, ps, src_qkv, source_shape)
        tgt_keys == get_keys_from_qkv(m, ps, tgt_qkv, target_shape)
        h == src_keys.shape[1]
        t == src_keys.shape[2]
        d == src_keys.shape[3]
        concatenated_src_keys == reshape(transpose01(src_keys), <<t, h * d>>)
        concatenated_tgt_keys == reshape(transpose01(tgt_keys), <<t, h * d>>)
    IN  IF ~src_keys.ok \/ ~tgt_keys.ok THEN Raised("ShapeError")
        ELSE IF ~ShapesAgree(src_keys.shape, tgt_keys.shape)
             THEN Raised("AssertionError")
             ELSE IF ~concatenated_tgt_keys.ok THEN Raised("ShapeError")
                  ELSE SimResult(<<1, t, t>>,
                                 cross_cos_sim(unsqueeze2(concatenated_src_keys),
                                               unsqueeze2(concatenated_tgt_keys),
                                               0, i, j))

SimVals == {-1, 0, 1}
TokenWidths == {1, 2}

\* token sets of shape (1, 1, t, d), every content over SimVals
TokenSets ==
    UNION {{[fn |-> "cosine_sim", t |-> td[1], d |-> td[2], data |-> data,
             i |-> ij[1], j |-> ij[2]] :
                data \in [1..(td[1] * td[2]) -> SimVals],
                ij \in (0..(td[1] - 1)) \X (0..(td[1] - 1))} :
           td \in (1..MaxTokens) \X TokenWidths}

\* an image, a stage, the seed of the contents the (deterministic) forward
\* evaluation gives its outputs, and the entry [0, i, j] looked up
KeySimCalls ==
    [fn : {"keys_sim"}, img : Images, layer : LayerNums, seed : 0..MaxSeed,
     i : 0..1, j : {1}]

\* the output a callback captured, with its contents
Forwarded(tag, seed) ==
    BaseTensor(CapturedShape(tag.kind, mode, patch_size, tag.img), Generated(seed))

Pending == Raised("pending")

\* attn_cosine_sim(x) and cross_cos_sim(x, x) on one token set
call_cosine_sims ==
    /\ arg.fn = "cosine_sim"
    /\ ret = NoCall
    /\ LET x == BaseTensor(<<1, 1, arg.t, arg.d>>, Data(arg.data))
       IN  ret' = [fn |-> arg.fn,
                   self |-> SimResult(<<1, arg.t, arg.t>>,
                                      attn_cosine_sim(x, 0, arg.i, arg.j)),
                   cross |-> SimResult(<<1, arg.t, arg.t>>,
                                       cross_cos_sim(x, x, 0, arg.i, arg.j))]
    /\ UNCHANGED <<extractor, config, control, arg>>

\* get_keys_self_sim_from_input(img, layer) is entered on the new extractor
call_keys_self_sim ==
    /\ arg.fn = "keys_sim"
    /\ status[1] = "none"
    /\ Enter(1, "get_keys_self_sim_from_input", arg.img, arg.img)
    /\ ret' = [fn |-> arg.fn, self |-> Pending, cross |-> Pending]
    /\ UNCHANGED arg

\* get_keys_self_sim_from_input after its extraction cycle: decomposition,
\* collapse and similarity of the captured qkv output
return_keys_self_sim ==
    /\ arg.fn = "keys_sim"
    /\ frame[1].op = "get_keys_self_sim_from_input"
    /\ get_projection(1, arg.layer)
    /\ LET tag == heap[frame[1].feature][arg.layer + 1]
           qkv == Forwarded(tag, arg.seed)
       IN  ret' = [ret EXCEPT !.self =
                      get_keys_self_sim_from_input(mode, patch_size, qkv,
                                                   frame[1].img, arg.i, arg.j)]
    /\ UNCHANGED arg

\* get_keys_cross_sim_from_input(img, img, layer) is entered once the
\* self-similarity call has returned or failed in its decomposition
call_keys_cross_sim ==
    /\ arg.fn = "keys_sim"
    /\ ret.fn = "keys_sim"
    /\ ret.self.error # "pending"
    /\ ret.cross.error = "pending"
    /\ status[1] # "ForwardError"
    /\ Enter(1, CrossOp, arg.img, arg.img)
    /\ UNCHANGED pure

\* get_keys_cross_sim_from_input after its first extraction cycle
keys_cross_sim_source ==
    /\ arg.fn = "keys_sim"
    /\ cross_sim_source(1, arg.layer)
    /\ ret' = IF pc'[1] = "done"
              THEN [ret EXCEPT !.cross = Raised(frame'[1].outcome)]
              ELSE ret
    /\ UNCHANGED arg

\* get_keys_cross_sim_from_input after its second extraction cycle: the
\* source keys are those of the first forward evaluation
return_keys_cross_sim ==
    /\ arg.fn = "keys_sim"
    /\ cross_sim_target(1)
    /\ LET tag == heap[frame[1].feature][frame[1].layer + 1]
           tgt_qkv == Forwarded(tag, arg.seed)
           src_qkv == Forwarded(Tensor(0, frame[1].layer, QKV_KEY, frame[1].img),
                                arg.seed)
       IN  ret' = [ret EXCEPT !.cross =
                      get_keys_cross_sim_from_input(mode, patch_size, src_qkv, tgt_qkv,
                                                    frame[1].img, frame[1].img2,
                                                    arg.i, arg.j)]
    /\ UNCHANGED arg

InitSim ==
    /\ mode \in MODE
    /\ patch_size \in PatchSizes
    /\ Constructed
    /\ arg \in TokenSets \cup KeySimCalls
    /\ ret = NoCall

NextSim ==
    \/ call_cosine_sims
    \/ call_keys_self_sim
    \/ return_keys_self_sim
    \/ call_keys_cross_sim
    \/ keys_cross_sim_source
    \/ return_keys_cross_sim
    \/ _register_hooks(1)
    \/ model_forward_hook(1)
    \/ model_return(1)
    \/ model_raise(1)
    \/ read_buffer(1)
    \/ _clear_hooks(1)
    \/ _init_hooks_data(1)
    \/ Return(1)

SpecSim == InitSim /\ [][NextSim]_vars

\* C8: cross_cos_sim(x, x) equals attn_cosine_sim(x) entry for entry, and
\* get_keys_cross_sim_from_input(img, img, stage) equals
\* get_keys_self_sim_from_input(img, stage).
C8_CrossOfSelfIsSelf ==
    (ret.fn # "none" /\ ret.cross.error # "pending") =>
        /\ ret.cross = ret.self
        /\ \A t \in Threads : pc[t] = "done" =>
              (frame[t].outcome = "returned") = ret.cross.ok

\* a token set with a zero token, where the clamp decides the entry
C8_Witness ==
    /\ ret.fn = "cosine_sim"
    /\ arg.t = 2
    /\ arg.data = <<0, 0, 1, -1>>
    /\ arg.i = 0
    /\ arg.j = 1
    /\ ret.self.entry.den.kind = "eps"
    /\ ret.cross = ret.self

\* both facade calls have returned a matrix with a non-zero entry here
C8_WitnessKeys ==
    /\ ret.fn = "keys_sim"
    /\ ret.self.ok
    /\ ret.cross.ok
    /\ ret.self.entry.num # 0
    /\ ncalls = 2
    /\ ResetState

----------------------------------------------------------------------------
(* Attention weights and their mean over the heads.                        *)

\* attn_output_weights.sum(dim=1)[b, i, j]
sum_dim1(x, b, i, j) ==
    LET per_head == [h \in 0..(x.shape[2] - 1) |-> Elem(x, <<b, h, i, j>>)]
    IN  SumRange(per_head, 0, x.shape[2] - 1)

\* get_attentions_from_input, from the captured attention tensor on; the
\* second result at [0, i, j]
get_attentions_from_input(m, attn_output_weights, return_mean, i, j) ==
    LET attn_output_weights_mean ==
            Quotient(sum_dim1(attn_output_weights, 0, i, j), get_head_num(m))
    IN  [weights |-> attn_output_weights,
         mean |-> IF return_mean
                  THEN [none |-> FALSE, at |-> attn_output_weights_mean]
                  ELSE [none |-> TRUE, at |-> Quotient(0, 1)]]

AttnCalls ==
    [fn : {"get_attentions_from_input"}, img : Images, layer : LayerNums,
     seed : 0..MaxSeed, return_mean : BOOLEAN, i : 0..1, j : 0..1]

\* get_attentions_from_input(img, layer, return_mean) is entered on the new
\* extractor
call_get_attentions ==
    /\ arg.fn = "get_attentions_from_input"
    /\ status[1] = "none"
    /\ Enter(1, AttnOp, arg.img, arg.img)
    /\ UNCHANGED pure

\* get_attentions_from_input after its extraction cycle: the element of the
\* captured list and its mean over the heads
return_get_attentions ==
    /\ arg.fn = "get_attentions_from_input"
    /\ frame[1].op = AttnOp
    /\ get_element(1, arg.layer)
    /\ LET tag == heap[frame[1].feature][arg.layer + 1]
           captured == Forwarded(tag, arg.seed)
           res == get_attentions_from_input(mode, captured, arg.return_mean,
                                            arg.i, arg.j)
       IN  ret' = [fn |-> arg.fn,
                   captured |-> [h \in 0..(captured.shape[2] - 1) |->
                                    Elem(captured, <<0, h, arg.i, arg.j>>)],
                   weights |-> [h \in 0..(res.weights.shape[2] - 1) |->
                                    Elem(res.weights, <<0, h, arg.i, arg.j>>)],
                   mean |-> res.mean]
    /\ UNCHANGED arg

InitAttn ==
    /\ mode \in MODE
    /\ patch_size \in PatchSizes
    /\ Constructed
    /\ arg \in AttnCalls
    /\ ret = NoCall

NextAttn ==
    \/ call_get_attentions
    \/ return_get_attentions
    \/ _register_hooks(1)
    \/ model_forward_hook(1)
    \/ model_return(1)
    \/ model_raise(1)
    \/ read_buffer(1)
    \/ _clear_hooks(1)
    \/ _init_hooks_data(1)
    \/ Return(1)

SpecAttn == InitAttn /\ [][NextAttn]_vars

\* C6: for every variant, the second result of get_attentions_from_input
\* with return_mean=True is, element for element, the sum over the heads of
\* the captured per-head weights divided by the number of heads the tensor
\* has, and the first result is the captured tensor itself.
C6_MeanOverHeads ==
    ret.fn = "get_attentions_from_input" =>
        LET heads == Cardinality(DOMAIN ret.captured)
            total == SumRange(ret.captured, 0, heads - 1)
        IN  /\ ret.weights = ret.captured
            /\ arg.return_mean =>
                  /\ ~ret.mean.none
                  /\ ret.mean.at.num * heads = total * ret.mean.at.den

====
